---- MODULE Spec2Model ----
(***************************************************************************)
(* Model of torchgeo/samplers/utils.py: _to_tuple, get_random_bounding_box,*)
(* get_random_bounding_box_check_valid_overlap and tile_to_chips.          *)
(*                                                                         *)
(* Numbers.  The sampler mixes the caller's coordinates with a random      *)
(* fraction in [0, 1).  Every coordinate, size and resolution of the       *)
(* sampler is a fixed-point number: the integer n stands for n / Scale.    *)
(* The caller's inputs are whole numbers (multiples of Scale), a random    *)
(* draw is one of 0 .. Scale-1 (k stands for k / Scale), and every product *)
(* the code forms is then exact.  Rounding of IEEE doubles is not          *)
(* modelled: arithmetic is exact.                                          *)
(* tile_to_chips uses no random fraction; its numbers are plain integers   *)
(* and its quotient is an exact fraction handed to math.ceil.              *)
(***************************************************************************)
EXTENDS Integers, Sequences, FiniteSets, TLC

VARIABLES pc, args, retries, bounding_box, rand_calls, history, result

vars == <<pc, args, retries, bounding_box, rand_calls, history, result>>

----------------------------------------------------------------------------
(* Bounds of the model *)

\* coordinates of the near corner of bounds, and its time stamps: 0 .. MaxOrigin
MaxOrigin == 1
\* extent of bounds on an axis: 0 .. MaxExtent
MaxExtent == 3
\* a component of size: 0 .. MaxSize
MaxSize == 4
\* res: 1 .. MaxRes
MaxRes == 2
\* the random source returns k / RandDen, k in 0 .. RandDen - 1
RandDen == 2
\* in the retry loop: extent of bounds 1 .. MaxLoopExtent, a component of size
\* 1 .. MaxLoopSize
MaxLoopExtent == 2
MaxLoopSize == 2
\* max_retries: -1 .. MaxRetries
MaxRetries == 5
\* a component of stride: -1 .. MaxStride
MaxStride == 3

----------------------------------------------------------------------------
(* Fixed-point arithmetic of the sampler *)

Scale == RandDen

Whole(n) == n * Scale

\* a * b of two fixed-point numbers
FMul(a, b) == (a * b) \div Scale

\* Python's a // b on numbers, b > 0: the floor of the quotient, a whole number
FloorDiv(a, b) == Whole(a \div b)

\* torch.rand(1).item(): a value in [0, 1)
RandVals == 0 .. (Scale - 1)

----------------------------------------------------------------------------
(* BoundingBox and the size argument *)

BoundingBox(minx, maxx, miny, maxy, mint, maxt) ==
    [minx |-> minx, maxx |-> maxx, miny |-> miny, maxy |-> maxy,
     mint |-> mint, maxt |-> maxt]

\* a size is a single number or a (height, width) tuple; the number is held
\* in a one-element sequence so that sizes of both kinds are comparable values
Scalar(v) == [tag |-> "scalar", v |-> <<v>>]

Pair(h, w) == [tag |-> "tuple", v |-> <<h, w>>]

\* _to_tuple: (value, value) for a number, the tuple itself otherwise
To_tuple(value) ==
    IF value.tag = "scalar" THEN <<value.v[1], value.v[1]>> ELSE value.v

----------------------------------------------------------------------------
(* get_random_bounding_box *)

\* get_random_bounding_box with the slack computed from the extent alone
GetRandomBoundingBox_NoSizeInSlack(bounds, size, res, rnd) ==
    LET t_size == To_tuple(size)
        width  == FloorDiv(bounds.maxx - bounds.minx, res)
        height == FloorDiv(bounds.maxy - bounds.miny, res)
        randx  == rnd[1]
        randy  == IF width > 0 THEN rnd[2] ELSE rnd[1]
        minx   == IF width > 0
                  THEN bounds.minx + FMul(FMul(randx, width), res)
                  ELSE bounds.minx
        miny   == IF height > 0
                  THEN bounds.miny + FMul(FMul(randy, height), res)
                  ELSE bounds.miny
    IN  [query |-> BoundingBox(minx, minx + t_size[2], miny, miny + t_size[1],
                               bounds.mint, bounds.maxt),
         calls |-> (IF width > 0 THEN <<"x">> ELSE <<>>)
                   \o (IF height > 0 THEN <<"y">> ELSE <<>>)]

\* get_random_bounding_box without the guards on width and height
GetRandomBoundingBox_NoGuard(bounds, size, res, rnd) ==
    LET t_size == To_tuple(size)
        width  == FloorDiv(bounds.maxx - bounds.minx - t_size[2], res)
        height == FloorDiv(bounds.maxy - bounds.miny - t_size[1], res)
        minx   == bounds.minx + FMul(FMul(rnd[1], width), res)
        miny   == bounds.miny + FMul(FMul(rnd[2], height), res)
    IN  [query |-> BoundingBox(minx, minx + t_size[2], miny, miny + t_size[1],
                               bounds.mint, bounds.maxt),
         calls |-> <<"x", "y">>]

\* get_random_bounding_box with the far corner built from the wrong components
GetRandomBoundingBox_SwappedSize(bounds, size, res, rnd) ==
    LET t_size == To_tuple(size)
        width  == FloorDiv(bounds.maxx - bounds.minx - t_size[2], res)
        height == FloorDiv(bounds.maxy - bounds.miny - t_size[1], res)
        randx  == rnd[1]
        randy  == IF width > 0 THEN rnd[2] ELSE rnd[1]
        minx   == IF width > 0
                  THEN bounds.minx + FMul(FMul(randx, width), res)
                  ELSE bounds.minx
        miny   == IF height > 0
                  THEN bounds.miny + FMul(FMul(randy, height), res)
                  ELSE bounds.miny
    IN  [query |-> BoundingBox(minx, minx + t_size[1], miny, miny + t_size[2],
                               bounds.mint, bounds.maxt),
         calls |-> (IF width > 0 THEN <<"x">> ELSE <<>>)
                   \o (IF height > 0 THEN <<"y">> ELSE <<>>)]

\* rnd is the stream of values the random source will return, in order; the
\* result carries the box and the axes torch.rand was called for, in order.
GetRandomBoundingBox(bounds, size, res, rnd) ==
    LET t_size == To_tuple(size)
        width  == FloorDiv(bounds.maxx - bounds.minx - t_size[2], res)
        height == FloorDiv(bounds.maxy - bounds.miny - t_size[1], res)
        randx  == rnd[1]
        randy  == IF width > 0 THEN rnd[2] ELSE rnd[1]
        minx   == IF width > 0
                  THEN bounds.minx + FMul(FMul(randx, width), res)
                  ELSE bounds.minx
        miny   == IF height > 0
                  THEN bounds.miny + FMul(FMul(randy, height), res)
                  ELSE bounds.miny
        maxx   == minx + t_size[2]
        maxy   == miny + t_size[1]
        mint   == bounds.mint
        maxt   == bounds.maxt
    IN  [query |-> BoundingBox(minx, maxx, miny, maxy, mint, maxt),
         calls |-> (IF width > 0 THEN <<"x">> ELSE <<>>)
                   \o (IF height > 0 THEN <<"y">> ELSE <<>>)]

\* the two values a call may consume
RandStreams == [1 .. 2 -> RandVals]

----------------------------------------------------------------------------
(* Inputs *)

Origins == 0 .. MaxOrigin

Extents == 0 .. MaxExtent

Sizes == 0 .. MaxSize

BoundsSet(origins, extents, times) ==
    { BoundingBox(Whole(x), Whole(x + ex), Whole(y), Whole(y + ey), t1, t2) :
        <<x, y, ex, ey, t1, t2>> \in
            { q \in origins \X origins \X extents \X extents \X times \X times :
                q[5] <= q[6] } }

SizeSet(sizes) ==
    { Scalar(Whole(v)) : v \in sizes }
        \cup { Pair(Whole(h), Whole(w)) : <<h, w>> \in sizes \X sizes }

ResSet == { Whole(r) : r \in 1 .. MaxRes }

NoBox == BoundingBox(0, 0, 0, 0, 0, 0)

----------------------------------------------------------------------------
(* A caller of get_random_bounding_box *)

SampleArgs ==
    [bounds : BoundsSet(Origins, Extents, Origins), size : SizeSet(Sizes), res : ResSet]

InitSample ==
    /\ pc = "call"
    /\ args \in SampleArgs
    /\ retries = 0
    /\ bounding_box = NoBox
    /\ rand_calls = <<>>
    /\ history = <<>>
    /\ result = NoBox

Sample ==
    /\ pc = "call"
    /\ \E rnd \in RandStreams :
         LET r == GetRandomBoundingBox(args.bounds, args.size, args.res, rnd)
         IN  /\ bounding_box' = r.query
             /\ rand_calls' = r.calls
             /\ result' = r.query
    /\ pc' = "done"
    /\ UNCHANGED <<args, retries, history>>

NextSample == Sample

SpecSample == InitSample /\ [][NextSample]_vars

----------------------------------------------------------------------------
(* Geometry: shapely.geometry.box and the two spatial operators, on        *)
(* axis-aligned rectangles of positive area                                *)

\* shapely.geometry.box(minx, miny, maxx, maxy)
ShapelyBox(minx, miny, maxx, maxy) ==
    [minx |-> minx, miny |-> miny, maxx |-> maxx, maxy |-> maxy]

\* every point of a is a point of b
Covers(b, a) ==
    /\ b.minx <= a.minx
    /\ a.maxx <= b.maxx
    /\ b.miny <= a.miny
    /\ a.maxy <= b.maxy

\* the interiors of a and b have a point in common
InteriorsMeet(a, b) ==
    /\ (IF a.minx >= b.minx THEN a.minx ELSE b.minx)
           < (IF a.maxx <= b.maxx THEN a.maxx ELSE b.maxx)
    /\ (IF a.miny >= b.miny THEN a.miny ELSE b.miny)
           < (IF a.maxy <= b.maxy THEN a.maxy ELSE b.maxy)

\* shapely.overlaps(a, b): the geometries have some but not all points in
\* common, and their interiors meet (DE-9IM T*T***T**)
Overlaps(a, b) == InteriorsMeet(a, b) /\ ~Covers(b, a) /\ ~Covers(a, b)

\* shapely.within(a, b): no point of a lies outside b, and the interiors meet
Within(a, b) == InteriorsMeet(a, b) /\ Covers(b, a)

SpatialOperator(op, a, b) ==
    IF op = "overlaps" THEN Overlaps(a, b) ELSE Within(a, b)

----------------------------------------------------------------------------
(* get_random_bounding_box_check_valid_overlap *)

\* the loop giving up one attempt late
LoopReturns_Late(satisfied, n, max_retries) == satisfied \/ (n > max_retries)

\* the loop giving up one attempt early
LoopReturns_Early(satisfied, n, max_retries) ==
    satisfied \/ (n + 1 >= max_retries)

\* the condition under which an iteration returns its candidate
LoopReturns(satisfied, n, max_retries) == satisfied \/ (n >= max_retries)

\* footprints of a raster whose extent is bounds: the whole extent, the extent
\* moved by one unit on both axes, the unit square in the near corner, and a
\* rectangle no candidate can reach
Footprints(b) ==
    { ShapelyBox(b.minx, b.miny, b.maxx, b.maxy),
      ShapelyBox(b.minx + Whole(1), b.miny + Whole(1),
                 b.maxx + Whole(1), b.maxy + Whole(1)),
      ShapelyBox(b.minx, b.miny, b.minx + Whole(1), b.miny + Whole(1)),
      ShapelyBox(b.maxx + Whole(MaxSize + 1), b.maxy + Whole(MaxSize + 1),
                 b.maxx + Whole(MaxSize + 2), b.maxy + Whole(MaxSize + 2)) }

OverlapArgs ==
    UNION { [bounds : {b},
             spatial_operator : {"overlaps", "within"},
             size : SizeSet(1 .. MaxLoopSize),
             res : ResSet,
             valid_footprint : Footprints(b),
             max_retries : (0 - 1) .. MaxRetries] :
            b \in BoundsSet({0}, 1 .. MaxLoopExtent, {0}) }

InitOverlap ==
    /\ pc = "loop"
    /\ args \in OverlapArgs
    /\ retries = 0
    /\ bounding_box = NoBox
    /\ rand_calls = <<>>
    /\ history = <<>>
    /\ result = NoBox

\* one iteration of the while loop; history records, for each candidate drawn,
\* whether it satisfied the spatial operator
Iterate ==
    /\ pc = "loop"
    /\ \E rnd \in RandStreams :
         LET r   == GetRandomBoundingBox(args.bounds, args.size, args.res, rnd)
             bbox == ShapelyBox(r.query.minx, r.query.miny,
                                r.query.maxx, r.query.maxy)
             satisfied == SpatialOperator(args.spatial_operator, bbox,
                                          args.valid_footprint)
         IN  /\ retries' = retries + 1
             /\ bounding_box' = r.query
             /\ rand_calls' = r.calls
             /\ history' = Append(history, satisfied)
             /\ IF LoopReturns(satisfied, retries + 1, args.max_retries)
                THEN pc' = "done" /\ result' = r.query
                ELSE pc' = "loop" /\ UNCHANGED result
    /\ UNCHANGED args

NextOverlap == Iterate

SpecOverlap == InitOverlap /\ [][NextOverlap]_vars

----------------------------------------------------------------------------
(* tile_to_chips: plain integers, an exact quotient and math.ceil          *)

\* a / b, b # 0: the exact quotient
TrueDiv(a, b) == [num |-> a, den |-> b]

\* math.ceil(q): the least integer that is not below the quotient
MathCeil(q) ==
    LET n == IF q.den > 0 THEN q.num ELSE 0 - q.num
        d == IF q.den > 0 THEN q.den ELSE 0 - q.den
        f == n \div d
    IN  IF f * d = n THEN f ELSE f + 1

\* stride=None
NoStride == <<>>

AssertionError == [kind |-> "AssertionError", rows |-> 0, cols |-> 0]

ZeroDivisionError == [kind |-> "ZeroDivisionError", rows |-> 0, cols |-> 0]

\* tile_to_chips with floor in place of ceil
TileToChips_Floor(bounds, size, stride) ==
    LET stride1 == IF stride = NoStride THEN size ELSE stride
    IN  IF ~(stride1[1] > 0) THEN AssertionError
        ELSE IF ~(stride1[2] > 0) THEN AssertionError
        ELSE [kind |-> "ok",
              rows |-> ((bounds.maxy - bounds.miny - size[1]) \div stride1[1]) + 1,
              cols |-> ((bounds.maxx - bounds.minx - size[2]) \div stride1[2]) + 1]

\* tile_to_chips without the final chip of each row and column
TileToChips_NoPlusOne(bounds, size, stride) ==
    LET stride1 == IF stride = NoStride THEN size ELSE stride
    IN  IF ~(stride1[1] > 0) THEN AssertionError
        ELSE IF ~(stride1[2] > 0) THEN AssertionError
        ELSE [kind |-> "ok",
              rows |-> MathCeil(TrueDiv(bounds.maxy - bounds.miny - size[1],
                                        stride1[1])),
              cols |-> MathCeil(TrueDiv(bounds.maxx - bounds.minx - size[2],
                                        stride1[2]))]

\* tile_to_chips with rows counted along x and columns along y
TileToChips_SwappedAxes(bounds, size, stride) ==
    LET stride1 == IF stride = NoStride THEN size ELSE stride
    IN  IF ~(stride1[1] > 0) THEN AssertionError
        ELSE IF ~(stride1[2] > 0) THEN AssertionError
        ELSE [kind |-> "ok",
              rows |-> MathCeil(TrueDiv(bounds.maxx - bounds.minx - size[1],
                                        stride1[1])) + 1,
              cols |-> MathCeil(TrueDiv(bounds.maxy - bounds.miny - size[2],
                                        stride1[2])) + 1]

\* tile_to_chips asserting on the first component of stride only
TileToChips_OneAssert(bounds, size, stride) ==
    LET stride1 == IF stride = NoStride THEN size ELSE stride
    IN  IF ~(stride1[1] > 0) THEN AssertionError
        ELSE IF stride1[2] = 0 THEN ZeroDivisionError
        ELSE [kind |-> "ok",
              rows |-> MathCeil(TrueDiv(bounds.maxy - bounds.miny - size[1],
                                        stride1[1])) + 1,
              cols |-> MathCeil(TrueDiv(bounds.maxx - bounds.minx - size[2],
                                        stride1[2])) + 1]

TileToChips(bounds, size, stride) ==
    LET stride1 == IF stride = NoStride THEN size ELSE stride
    IN  IF ~(stride1[1] > 0) THEN AssertionError
        ELSE IF ~(stride1[2] > 0) THEN AssertionError
        ELSE [kind |-> "ok",
              rows |-> MathCeil(TrueDiv(bounds.maxy - bounds.miny - size[1],
                                        stride1[1])) + 1,
              cols |-> MathCeil(TrueDiv(bounds.maxx - bounds.minx - size[2],
                                        stride1[2])) + 1]

TileBounds ==
    { BoundingBox(x, x + ex, y, y + ey, 0, 0) :
        <<x, y, ex, ey>> \in Origins \X Origins \X Extents \X Extents }

TileSizes == ((0 - 1) .. MaxSize) \X ((0 - 1) .. MaxSize)

Strides == {NoStride} \cup (((0 - 1) .. MaxStride) \X ((0 - 1) .. MaxStride))

TileArgs == [bounds : TileBounds, size : TileSizes, stride : Strides]

NoResult == [kind |-> "none", rows |-> 0, cols |-> 0]

InitTile ==
    /\ pc = "call"
    /\ args \in TileArgs
    /\ retries = 0
    /\ bounding_box = NoBox
    /\ rand_calls = <<>>
    /\ history = <<>>
    /\ result = NoResult

\* a call of tile_to_chips: it returns (rows, cols) or raises
Tile ==
    /\ pc = "call"
    /\ result' = TileToChips(args.bounds, args.size, args.stride)
    /\ pc' = IF result'.kind = "ok" THEN "done" ELSE "raised"
    /\ UNCHANGED <<args, retries, bounding_box, rand_calls, history>>

NextTile == Tile

SpecTile == InitTile /\ [][NextTile]_vars

----------------------------------------------------------------------------
(* Properties of get_random_bounding_box, under SpecSample                 *)

\* the height and the width a caller asks for
ReqHeight(size) == IF size.tag = "scalar" THEN size.v[1] ELSE size.v[1]

ReqWidth(size) == IF size.tag = "scalar" THEN size.v[1] ELSE size.v[2]

ExtentX(b) == b.maxx - b.minx

ExtentY(b) == b.maxy - b.miny

SizeFits(b, size) ==
    ReqWidth(size) <= ExtentX(b) /\ ReqHeight(size) <= ExtentY(b)

\* C1: when the requested height and width do not exceed the extent of bounds
\* on their axes, the box get_random_bounding_box returns lies inside bounds
\* on both axes, is exactly as wide and as high as requested, and carries the
\* time extent of bounds, whatever the random source returns.
C1_BoxInsideBounds ==
    (pc = "done" /\ SizeFits(args.bounds, args.size)) =>
        /\ result.minx >= args.bounds.minx
        /\ result.maxx <= args.bounds.maxx
        /\ result.miny >= args.bounds.miny
        /\ result.maxy <= args.bounds.maxy
        /\ result.maxx - result.minx = ReqWidth(args.size)
        /\ result.maxy - result.miny = ReqHeight(args.size)
        /\ result.mint = args.bounds.mint
        /\ result.maxt = args.bounds.maxt

\* a box moved off the near corner on both axes, of a non-square size, in
\* bounds whose two time stamps differ
C1_Witness ==
    /\ pc = "done"
    /\ SizeFits(args.bounds, args.size)
    /\ result.minx > args.bounds.minx
    /\ result.miny > args.bounds.miny
    /\ ReqWidth(args.size) # ReqHeight(args.size)
    /\ args.bounds.mint # args.bounds.maxt

\* slack = floor((extent - size) / res)
Slack(extent, size, res) == (extent - size) \div res

Consulted(axis) == \E i \in 1 .. Len(rand_calls) : rand_calls[i] = axis

\* C9: on each axis on its own, when the slack floor((extent - size) / res) is
\* not positive (as it is whenever size equals or exceeds the extent), the
\* random source is not consulted for that axis, the near coordinate returned
\* is the minimum of bounds and the far one is that minimum plus the requested
\* size; the call returns a box in every case.
C9_FlushWithoutSlack ==
    pc = "done" =>
        /\ Slack(ExtentX(args.bounds), ReqWidth(args.size), args.res) <= 0 =>
               /\ ~Consulted("x")
               /\ result.minx = args.bounds.minx
               /\ result.maxx = args.bounds.minx + ReqWidth(args.size)
        /\ Slack(ExtentY(args.bounds), ReqHeight(args.size), args.res) <= 0 =>
               /\ ~Consulted("y")
               /\ result.miny = args.bounds.miny
               /\ result.maxy = args.bounds.miny + ReqHeight(args.size)
        /\ ReqWidth(args.size) >= ExtentX(args.bounds) =>
               Slack(ExtentX(args.bounds), ReqWidth(args.size), args.res) <= 0
        /\ ReqHeight(args.size) >= ExtentY(args.bounds) =>
               Slack(ExtentY(args.bounds), ReqHeight(args.size), args.res) <= 0

\* the size exceeds the extent on x and the box sticks out of bounds there,
\* while y has slack and is the only axis the random source was asked for
C9_Witness ==
    /\ pc = "done"
    /\ ReqWidth(args.size) > ExtentX(args.bounds)
    /\ result.minx = args.bounds.minx
    /\ result.maxx > args.bounds.maxx
    /\ rand_calls = <<"y">>
    /\ result.miny > args.bounds.miny
    /\ ReqHeight(args.size) > 0

----------------------------------------------------------------------------
(* Properties of get_random_bounding_box_check_valid_overlap, under        *)
(* SpecOverlap                                                             *)

Max(a, b) == IF a >= b THEN a ELSE b

\* the index of the first candidate drawn that satisfied the spatial operator,
\* 0 when none did
FirstSatisfied ==
    IF \E i \in 1 .. Len(history) : history[i]
    THEN CHOOSE i \in 1 .. Len(history) :
             history[i] /\ \A j \in 1 .. (i - 1) : ~history[j]
    ELSE 0

\* the polygon of the box returned
ResultPolygon ==
    ShapelyBox(result.minx, result.miny, result.maxx, result.maxy)

FullExtent(b) == ShapelyBox(b.minx, b.miny, b.maxx, b.maxy)

\* C2 as stated: whatever max_retries is, the call has returned after at most
\* max_retries iterations (read here for max_retries >= 0 only).
C2_AtMostMaxRetries ==
    (pc = "done" /\ args.max_retries >= 0) => retries <= args.max_retries

\* C2, amended: the retry counter is the number of candidates drawn (1 on the
\* first attempt, one more per iteration), it never exceeds
\* max(1, max_retries), and the loop goes round again only while the counter
\* is below max_retries, whatever the spatial operator answers.
C2_AtMostMaxRetriesOrOne ==
    /\ retries = Len(history)
    /\ retries <= Max(1, args.max_retries)
    /\ (pc = "loop" /\ retries >= 1) => retries < args.max_retries
    /\ pc = "done" => retries >= 1

\* the budget is used up: several candidates drawn, none satisfied the operator
C2_Witness ==
    /\ pc = "done"
    /\ retries >= 2
    /\ retries = args.max_retries
    /\ \A i \in 1 .. Len(history) : ~history[i]

\* C3: with max_retries = N >= 1 the number of candidates drawn is min(k, N),
\* k the index of the first candidate that satisfies the operator (N when none
\* does); the box returned is the last candidate drawn, and nothing is
\* returned before that.
C3_DrawnIsMinOfFirstAndBudget ==
    args.max_retries >= 1 =>
        /\ pc = "done" =>
               /\ Len(history) = (IF FirstSatisfied = 0 THEN args.max_retries
                                  ELSE FirstSatisfied)
               /\ Len(history) <= args.max_retries
               /\ result = bounding_box
        /\ pc = "loop" =>
               /\ FirstSatisfied = 0
               /\ Len(history) < args.max_retries
               /\ result = NoBox

\* max_retries = 5 and a footprint no candidate satisfies: five candidates are
\* drawn and the fifth is returned
C3_Witness ==
    /\ pc = "done"
    /\ args.max_retries = 5
    /\ Len(history) = 5
    /\ FirstSatisfied = 0
    /\ result = bounding_box
    /\ result # NoBox

\* C4 as stated: with the footprint the full extent of bounds, the operator
\* "overlaps" and a size that fits, the first candidate satisfies the operator
\* and the call returns with retries = 1.
C4_OverlapsFirstAttempt ==
    ( /\ pc = "done"
      /\ args.valid_footprint = FullExtent(args.bounds)
      /\ args.spatial_operator = "overlaps"
      /\ SizeFits(args.bounds, args.size)
      /\ args.max_retries >= 2 ) =>
        history[1] /\ retries = 1

\* C4, amended: with the footprint the full extent of bounds, the operator
\* "within" and a size that fits, the first candidate satisfies the operator
\* and the call returns with retries = 1.
C4_WithinFirstAttempt ==
    ( /\ Len(history) >= 1
      /\ args.valid_footprint = FullExtent(args.bounds)
      /\ args.spatial_operator = "within"
      /\ SizeFits(args.bounds, args.size) ) =>
        history[1] /\ retries = 1 /\ pc = "done"

\* a first candidate off the near corner is accepted although the budget
\* would have allowed more attempts
C4_Witness ==
    /\ pc = "done"
    /\ args.valid_footprint = FullExtent(args.bounds)
    /\ args.spatial_operator = "within"
    /\ SizeFits(args.bounds, args.size)
    /\ args.max_retries >= 2
    /\ retries = 1
    /\ history = <<TRUE>>
    /\ result.minx > args.bounds.minx

\* C5: the box returned satisfies the spatial operator against valid_footprint
\* (read here for the operator "within", a size that fits and
\* max_retries >= 1 only).
C5_ReturnedBoxSatisfiesOperator ==
    ( /\ pc = "done"
      /\ args.max_retries >= 1
      /\ args.spatial_operator = "within"
      /\ SizeFits(args.bounds, args.size) ) =>
        SpatialOperator(args.spatial_operator, ResultPolygon,
                        args.valid_footprint)

----------------------------------------------------------------------------
(* Properties of tile_to_chips, under SpecTile                             *)

\* the stride the computation uses: size when stride is absent
EffectiveStride == IF args.stride = NoStride THEN args.size ELSE args.stride

StridePositive == EffectiveStride[1] > 0 /\ EffectiveStride[2] > 0

\* n = ceil(a / b) for b > 0
IsCeiling(n, a, b) == n * b >= a /\ (n - 1) * b < a

Returned(rows, cols) == [kind |-> "ok", rows |-> rows, cols |-> cols]

\* C6: for a stride with both components positive (size standing in for an
\* absent stride) tile_to_chips returns rows = ceil((maxy - miny - size[0]) /
\* stride[0]) + 1 and cols = ceil((maxx - minx - size[1]) / stride[1]) + 1;
\* [0,10]x[0,10] with size (5,5) and stride (5,5) gives (2,2), and x in
\* [0,12], y in [0,10] with size (5,5) and no stride gives (2,3).
C6_CeilingFormula ==
    /\ (pc # "call" /\ StridePositive) =>
           /\ pc = "done"
           /\ result.kind = "ok"
           /\ IsCeiling(result.rows - 1,
                        ExtentY(args.bounds) - args.size[1], EffectiveStride[1])
           /\ IsCeiling(result.cols - 1,
                        ExtentX(args.bounds) - args.size[2], EffectiveStride[2])
    /\ TileToChips(BoundingBox(0, 10, 0, 10, 0, 0), <<5, 5>>, <<5, 5>>)
           = Returned(2, 2)
    /\ TileToChips(BoundingBox(0, 12, 0, 10, 0, 0), <<5, 5>>, NoStride)
           = Returned(2, 3)

\* no stride given, and a remainder on x only: more columns than rows
C6_Witness ==
    /\ pc = "done"
    /\ args.stride = NoStride
    /\ ExtentX(args.bounds) = ExtentY(args.bounds)
    /\ args.size[2] < ExtentX(args.bounds)
    /\ (ExtentX(args.bounds) - args.size[2]) % args.size[2] # 0
    /\ (ExtentY(args.bounds) - args.size[1]) % args.size[1] = 0
    /\ result.cols # result.rows
    /\ result.rows >= 2

\* the chips of a grid of rows x cols: chip (i, j) has its near corner at
\* (minx + j * stride[1], miny + i * stride[0]) and extent (size[1], size[0]).
\* Points are given by twice their coordinates, so that the half-way points
\* between grid lines are points too.
ColumnHolds(j, x2) ==
    LET lo == args.bounds.minx + j * EffectiveStride[2]
    IN  2 * lo <= x2 /\ x2 <= 2 * (lo + args.size[2])

RowHolds(i, y2) ==
    LET lo == args.bounds.miny + i * EffectiveStride[1]
    IN  2 * lo <= y2 /\ y2 <= 2 * (lo + args.size[1])

EveryPointReachable ==
    \A x2 \in (2 * args.bounds.minx) .. (2 * args.bounds.maxx) :
        \A y2 \in (2 * args.bounds.miny) .. (2 * args.bounds.maxy) :
            \E i \in 0 .. (result.rows - 1) :
                \E j \in 0 .. (result.cols - 1) :
                    RowHolds(i, y2) /\ ColumnHolds(j, x2)

\* C7 as stated: every point of the tile lies in some chip of the grid
\* tile_to_chips counts (read here for 0 < size <= extent on each axis only).
C7_EveryPointReachable ==
    ( /\ pc = "done"
      /\ 0 < args.size[1] /\ args.size[1] <= ExtentY(args.bounds)
      /\ 0 < args.size[2] /\ args.size[2] <= ExtentX(args.bounds) ) =>
        EveryPointReachable

\* C7, amended: every point of the tile lies in some chip of the grid
\* tile_to_chips counts, provided that on each axis the stride does not exceed
\* the size and the size does not exceed the extent of bounds.
C7_ReachableWhenChipsAbut ==
    ( /\ pc = "done"
      /\ EffectiveStride[1] <= args.size[1]
      /\ EffectiveStride[2] <= args.size[2]
      /\ args.size[1] <= ExtentY(args.bounds)
      /\ args.size[2] <= ExtentX(args.bounds) ) => EveryPointReachable

\* a partial remainder at the far edge of both axes
C7_Witness ==
    /\ pc = "done"
    /\ EffectiveStride[1] <= args.size[1]
    /\ EffectiveStride[2] <= args.size[2]
    /\ args.size[1] < ExtentY(args.bounds)
    /\ args.size[2] < ExtentX(args.bounds)
    /\ (ExtentY(args.bounds) - args.size[1]) % EffectiveStride[1] # 0
    /\ (ExtentX(args.bounds) - args.size[2]) % EffectiveStride[2] # 0
    /\ EveryPointReachable

\* C8: tile_to_chips raises AssertionError and returns nothing whenever the
\* effective stride (size when stride is absent) has a component <= 0, as for
\* stride (0,5) and (5,-1), and raises nothing when both components are
\* positive.
C8_NonPositiveStrideRaises ==
    /\ pc # "call" =>
           /\ ~StridePositive => (pc = "raised" /\ result = AssertionError)
           /\ StridePositive => (pc = "done" /\ result.kind = "ok")
    /\ TileToChips(BoundingBox(0, 10, 0, 10, 0, 0), <<5, 5>>, <<0, 5>>)
           = AssertionError
    /\ TileToChips(BoundingBox(0, 10, 0, 10, 0, 0), <<5, 5>>, <<5, 0 - 1>>)
           = AssertionError

\* no stride given and a size whose second component alone is not positive
C8_Witness ==
    /\ pc = "raised"
    /\ args.stride = NoStride
    /\ args.size[1] > 0
    /\ args.size[2] <= 0
    /\ result = AssertionError

\* n is the least integer >= 1 with (n - 1) * stride + size >= extent
IsLeastCount(n, extent, size, stride) ==
    /\ n >= 1
    /\ (n - 1) * stride + size >= extent
    /\ \A m \in 1 .. (n - 1) : (m - 1) * stride + size < extent

\* C10: for a positive stride and 0 <= size <= extent on each axis, each count
\* tile_to_chips returns is the least n >= 1 with (n - 1) * stride + size >=
\* extent: the last chip reaches the far edge and the one before it does not.
C10_LeastCount ==
    ( /\ pc # "call"
      /\ StridePositive
      /\ 0 <= args.size[1] /\ args.size[1] <= ExtentY(args.bounds)
      /\ 0 <= args.size[2] /\ args.size[2] <= ExtentX(args.bounds) ) =>
        /\ result.kind = "ok"
        /\ IsLeastCount(result.rows, ExtentY(args.bounds), args.size[1],
                        EffectiveStride[1])
        /\ IsLeastCount(result.cols, ExtentX(args.bounds), args.size[2],
                        EffectiveStride[2])

\* the last chip of a row sticks out of the tile and the last chip of a column
\* ends on its edge
C10_Witness ==
    /\ pc = "done"
    /\ 0 < args.size[1] /\ args.size[1] < ExtentY(args.bounds)
    /\ 0 < args.size[2] /\ args.size[2] < ExtentX(args.bounds)
    /\ result.rows >= 2
    /\ result.cols >= 2
    /\ (result.cols - 1) * EffectiveStride[2] + args.size[2]
           > ExtentX(args.bounds)
    /\ (result.rows - 1) * EffectiveStride[1] + args.size[1]
           = ExtentY(args.bounds)

====
